---- MODULE Spec2Model ----
(***************************************************************************)
(* A model of internal/reader/icon/finder.go: FindIcon and the helpers it  *)
(* sequences (fetchHTMLDocumentAndFindIconURL, findIconURLFromHTMLDocument,*)
(* generateIconURL, downloadIcon, parseImageDataURL).                      *)
(*                                                                         *)
(* Strings the code inspects character by character (the candidate icon    *)
(* URL, hrefs, data URLs) are sequences of one-character strings.  Byte    *)
(* slices are sequences of numbers 0..255.  URLs the code only hands to    *)
(* net/url helpers and to the HTTP client are symbolic terms.              *)
(***************************************************************************)
EXTENDS Naturals, Sequences, FiniteSets

VARIABLES
    pc,           \* position of the call: a line of FindIcon, or "done"
    websiteURL,   \* FindIcon's websiteURL argument
    argIconURL,   \* FindIcon's feedIconURL argument as the caller passed it
    feedIconURL,  \* the local feedIconURL (reassigned at line 26)
    candidate,    \* the value of feedIconURL tested at line 32, Nil before
    iconURL,      \* the resolved URL assigned at line 36, Nil before
    response,     \* the last HTTP response (or document) received, Nil before
    requests,     \* the GET requests issued so far, in order
    calls,        \* the helper functions entered so far, in order
    icon,         \* the returned *model.Icon, Nil when nil
    err           \* the returned error, Nil when nil

vars == <<pc, websiteURL, argIconURL, feedIconURL, candidate, iconURL,
          response, requests, calls, icon, err>>

Nil == [nil |-> TRUE]

\* ------------------------------------------------------------------ bounds

\* Longest document (number of elements) the scanner specification draws.
MaxLinks == 3
\* Longest data-URL payload (characters after the comma) that is drawn.
MaxPayload == 5
\* Longest page document served to FindIcon.
MaxPageLinks == 2

\* ----------------------------------------------------------------- strings

\* US-ASCII 32..95 in code order.
PrintableLow ==
    <<" ", "!", "\"", "#", "$", "%", "&", "'", "(", ")", "*", "+", ",", "-",
      ".", "/", "0", "1", "2", "3", "4", "5", "6", "7", "8", "9", ":", ";",
      "<", "=", ">", "?", "@", "A", "B", "C", "D", "E", "F", "G", "H", "I",
      "J", "K", "L", "M", "N", "O", "P", "Q", "R", "S", "T", "U", "V", "W",
      "X", "Y", "Z", "[", "\\", "]", "^", "_">>

\* US-ASCII 97..126 in code order.
PrintableHigh ==
    <<"a", "b", "c", "d", "e", "f", "g", "h", "i", "j", "k", "l", "m", "n",
      "o", "p", "q", "r", "s", "t", "u", "v", "w", "x", "y", "z", "{", "|",
      "}", "~">>

\* []byte(s)[i]: the byte of a character.
Ord(c) ==
    CASE c = "\t" -> 9
      [] c = "\n" -> 10
      [] c = "\r" -> 13
      [] \E i \in 1..Len(PrintableLow) : PrintableLow[i] = c ->
            31 + (CHOOSE i \in 1..Len(PrintableLow) : PrintableLow[i] = c)
      [] OTHER ->
            96 + (CHOOSE i \in 1..Len(PrintableHigh) : PrintableHigh[i] = c)

\* value[from:to] of Go, 0-based and half-open, on a 1-based sequence.
Slice(s, from, to) == SubSeq(s, from + 1, to)

\* strings.HasPrefix
HasPrefix(s, prefix) ==
    /\ Len(s) >= Len(prefix)
    /\ SubSeq(s, 1, Len(prefix)) = prefix

\* strings.Index(s, c) >= 0 for a one-character c.
Contains(s, c) == \E i \in 1..Len(s) : s[i] = c

\* strings.Index(s, c) when c occurs in s (0-based).
Index(s, c) == (CHOOSE i \in 1..Len(s) : s[i] = c /\ \A k \in 1..(i - 1) : s[k] # c) - 1

\* unicode.IsSpace on the Latin-1 range characters the model draws.
IsSpace(c) == c \in {" ", "\t", "\n", "\r"}

RECURSIVE TrimLeft(_)
TrimLeft(s) == IF s # <<>> /\ IsSpace(Head(s)) THEN TrimLeft(Tail(s)) ELSE s

RECURSIVE TrimRight(_)
TrimRight(s) ==
    IF s # <<>> /\ IsSpace(s[Len(s)]) THEN TrimRight(SubSeq(s, 1, Len(s) - 1)) ELSE s

\* strings.TrimSpace
TrimSpace(s) == TrimRight(TrimLeft(s))

DataPrefix == <<"d", "a", "t", "a", ":">>
ImagePrefix == <<"i", "m", "a", "g", "e", "/">>
Base64Token == <<"b", "a", "s", "e", "6", "4">>

\* ------------------------------------------------------------------ base64

\* encoding/base64 StdEncoding: the standard alphabet, '=' padding, not Strict.
StdAlphabet ==
    <<"A", "B", "C", "D", "E", "F", "G", "H", "I", "J", "K", "L", "M", "N",
      "O", "P", "Q", "R", "S", "T", "U", "V", "W", "X", "Y", "Z", "a", "b",
      "c", "d", "e", "f", "g", "h", "i", "j", "k", "l", "m", "n", "o", "p",
      "q", "r", "s", "t", "u", "v", "w", "x", "y", "z", "0", "1", "2", "3",
      "4", "5", "6", "7", "8", "9", "+", "/">>

PadChar == "="

\* enc.decodeMap[in]: the 6-bit value, 255 (0xff) for a byte outside the alphabet.
DecodeMap(c) ==
    IF \E i \in 1..Len(StdAlphabet) : StdAlphabet[i] = c
    THEN (CHOOSE i \in 1..Len(StdAlphabet) : StdAlphabet[i] = c) - 1
    ELSE 255

IsNewline(c) == c \in {"\n", "\r"}

\* "skip over newlines" of decodeQuantum; si is 1-based here.
RECURSIVE SkipNewlines(_, _)
SkipNewlines(src, si) ==
    IF si <= Len(src) /\ IsNewline(src[si]) THEN SkipNewlines(src, si + 1) ELSE si

\* AssembleReversed: the three bytes taken in the opposite order.
AssembleReversed(dbuf, dlen) ==
    LET val == dbuf[1] * 262144 + dbuf[2] * 4096 + dbuf[3] * 64 + dbuf[4]
        b == <<val % 256, (val \div 256) % 256, val \div 65536>>
    IN  SubSeq(b, 1, dlen - 1)

\* "Convert 4x 6bit source bytes into 3 bytes": the first dlen-1 bytes of the
\* 24-bit value; bits left over in a short quantum are dropped (not Strict).
Assemble(dbuf, dlen) ==
    LET val == dbuf[1] * 262144 + dbuf[2] * 4096 + dbuf[3] * 64 + dbuf[4]
        b == <<val \div 65536, (val \div 256) % 256, val % 256>>
    IN  SubSeq(b, 1, dlen - 1)

\* The padding branch of decodeQuantum: src[si-1] was '=' and j symbols were read.
PaddedQuantum(src, si, j, dbuf) ==
    IF j < 2
    THEN [si |-> si, out |-> <<>>, err |-> TRUE]               \* incorrect padding
    ELSE
        LET s2 == IF j = 2 THEN SkipNewlines(src, si) ELSE si
            short == j = 2 /\ (s2 > Len(src) \/ src[s2] # PadChar)
            s3 == IF j = 2 THEN s2 + 1 ELSE si
            s4 == SkipNewlines(src, s3)
        IN  IF short
            THEN [si |-> s2, out |-> <<>>, err |-> TRUE]       \* not enough padding
            ELSE IF s4 <= Len(src)
            THEN [si |-> s4, out |-> <<>>, err |-> TRUE]       \* trailing garbage
            ELSE [si |-> s4, out |-> Assemble(dbuf, j), err |-> FALSE]

\* (*Encoding).decodeQuantum with padChar = '=' and strict = false: reads one
\* quantum of src from si, having read j symbols into dbuf.
RECURSIVE DecodeQuantum(_, _, _, _)
DecodeQuantum(src, si, j, dbuf) ==
    IF j = 4
    THEN [si |-> si, out |-> Assemble(dbuf, 4), err |-> FALSE]
    ELSE IF si > Len(src)
    THEN [si |-> si, out |-> <<>>, err |-> j # 0]
    ELSE
        LET in == src[si]
            out == DecodeMap(in)
        IN  IF out # 255
            THEN DecodeQuantum(src, si + 1, j + 1, [dbuf EXCEPT ![j + 1] = out])
            ELSE IF IsNewline(in)
            THEN DecodeQuantum(src, si + 1, j, dbuf)
            ELSE IF in # PadChar
            THEN [si |-> si + 1, out |-> <<>>, err |-> TRUE]
            ELSE PaddedQuantum(src, si + 1, j, dbuf)

\* (*Encoding).Decode: quantum after quantum until src is used up.
RECURSIVE DecodeFrom(_, _, _)
DecodeFrom(src, si, acc) ==
    IF si > Len(src)
    THEN [blob |-> acc, err |-> FALSE]
    ELSE
        LET q == DecodeQuantum(src, si, 0, <<0, 0, 0, 0>>)
        IN  IF q.err
            THEN [blob |-> <<>>, err |-> TRUE]
            ELSE DecodeFrom(src, q.si, acc \o q.out)

\* base64.StdEncoding.DecodeString
DecodeString(data) == DecodeFrom(data, 1, <<>>)

\* ------------------------------------------------------------ url unescape

IsHex(c) == c \in {"0", "1", "2", "3", "4", "5", "6", "7", "8", "9",
                   "a", "b", "c", "d", "e", "f", "A", "B", "C", "D", "E", "F"}

\* net/url unhex
Unhex(c) ==
    CASE c \in {"0", "1", "2", "3", "4", "5", "6", "7", "8", "9"} -> Ord(c) - 48
      [] c \in {"a", "b", "c", "d", "e", "f"} -> Ord(c) - 97 + 10
      [] OTHER -> Ord(c) - 65 + 10

\* net/url unescape in encodeQueryComponent mode: %XX is a byte, '+' a space,
\* a '%' not followed by two hex digits is an EscapeError.
RECURSIVE UnescapeFrom(_, _, _)
UnescapeFrom(s, i, acc) ==
    IF i > Len(s)
    THEN [bytes |-> acc, err |-> FALSE]
    ELSE IF s[i] = "%"
    THEN IF i + 2 > Len(s) \/ ~IsHex(s[i + 1]) \/ ~IsHex(s[i + 2])
         THEN [bytes |-> <<>>, err |-> TRUE]
         ELSE UnescapeFrom(s, i + 3, Append(acc, 16 * Unhex(s[i + 1]) + Unhex(s[i + 2])))
    ELSE IF s[i] = "+"
    THEN UnescapeFrom(s, i + 1, Append(acc, 32))
    ELSE UnescapeFrom(s, i + 1, Append(acc, Ord(s[i])))

\* url.QueryUnescape followed by []byte(decodedData)
QueryUnescape(s) == UnescapeFrom(s, 1, <<>>)

\* ----------------------------------------------------------------- results

\* crypto.HashFromBytes: a digest is a function of the bytes alone.
HashFromBytes(bytes) == <<"sha256", bytes>>

\* &model.Icon{Hash, MimeType, Content}
Icon(content, mimeType) ==
    [Hash |-> HashFromBytes(content), MimeType |-> mimeType, Content |-> content]

\* fmt.Errorf: the format's fixed text, the function that built it, its detail.
Errorf(fn, text, detail) == [fn |-> fn, text |-> text, detail |-> detail]

Returned(i, e) == [icon |-> i, err |-> e]

\* ------------------------------------------------------- parseImageDataURL

\* PayloadAnyEncoding: the switch with its default case unescaping instead of
\* failing.
PayloadAnyEncoding(encoding, data, value) ==
    IF encoding = Base64Token
    THEN LET d == DecodeString(data)
         IN  IF d.err
             THEN [blob |-> <<>>, err |-> Errorf("parseImageDataURL", "icon: invalid data", value)]
             ELSE [blob |-> d.blob, err |-> Nil]
    ELSE LET u == QueryUnescape(data)
         IN  IF u.err
             THEN [blob |-> <<>>,
                   err |-> Errorf("parseImageDataURL", "icon: unable to decode data URL", value)]
             ELSE [blob |-> u.bytes, err |-> Nil]

\* The switch on encoding (lines 185-201): the decoded blob, or the error.
Payload(encoding, data, value) ==
    LET fn == "parseImageDataURL"
    IN  IF encoding = Base64Token
        THEN LET d == DecodeString(data)
             IN  IF d.err
                 THEN [blob |-> <<>>, err |-> Errorf(fn, "icon: invalid data", value)]
                 ELSE [blob |-> d.blob, err |-> Nil]
        ELSE IF encoding = <<>>
        THEN LET u == QueryUnescape(data)
             IN  IF u.err
                 THEN [blob |-> <<>>, err |-> Errorf(fn, "icon: unable to decode data URL", value)]
                 ELSE [blob |-> u.bytes, err |-> Nil]
        ELSE [blob |-> <<>>, err |-> Errorf(fn, "icon: unsupported data URL encoding", value)]

\* The part of parseImageDataURL after the comma was found (lines 171-213).
ParseAfterComma(value, comma) ==
    LET data == Slice(value, comma + 1, Len(value))
        head == Slice(value, 0, comma)
        hasSemi == Contains(head, ";") /\ Index(head, ";") > 0
        semicolon == Index(head, ";")
        mediaType == IF hasSemi THEN Slice(value, 0, semicolon) ELSE head
        encoding == IF hasSemi THEN Slice(value, semicolon + 1, comma) ELSE <<>>
        fn == "parseImageDataURL"
    IN  IF ~HasPrefix(mediaType, ImagePrefix)
        THEN Returned(Nil, Errorf(fn, "icon: invalid media type", mediaType))
        ELSE LET p == Payload(encoding, data, value)
             IN  IF p.err # Nil
                 THEN Returned(Nil, p.err)
                 ELSE IF Len(p.blob) = 0
                 THEN Returned(Nil, Errorf(fn, "icon: empty data URL", value))
                 ELSE Returned(Icon(p.blob, mediaType), Nil)

\* parseImageDataURL (lines 156-214); v is the argument, value the local after
\* value = value[5:].
parseImageDataURL(v) ==
    IF ~HasPrefix(v, DataPrefix)
    THEN Returned(Nil, Errorf("parseImageDataURL", "icon: invalid data URL (missing data:)", v))
    ELSE
        LET value == Slice(v, 5, Len(v))
        IN  IF ~Contains(value, ",")
            THEN Returned(Nil, Errorf("parseImageDataURL", "icon: invalid data URL (no comma)", value))
            ELSE ParseAfterComma(value, Index(value, ","))

\* ---------------------------------------------- findIconURLFromHTMLDocument

\* A string-valued attribute that is not present (s.Attr's exists = false).
NoAttr == <<"(absent)">>

\* An element of a parsed document: tag name, rel and href attributes.
Element(tag, rel, href) == [tag |-> tag, rel |-> rel, href |-> href]

\* queries (lines 91-96), in the order the loop tries them.
queries == <<"shortcut icon", "Shortcut Icon", "icon shortcut", "icon">>

\* The selector link[rel='<query>']: a link element whose rel is exactly query.
Matches(e, query) == e.tag = "link" /\ e.rel = query

\* doc.Find(query): the matching elements in document order.
Find(doc, query) == SelectSeq(doc, LAMBDA e : Matches(e, query))

\* FirstHrefWins: the Each callback keeping the first href instead of the last.
RECURSIVE EachFirstHref(_, _, _)
EachFirstHref(matched, cur, assigned) ==
    IF matched = <<>>
    THEN cur
    ELSE IF Head(matched).href # NoAttr /\ ~assigned
    THEN EachFirstHref(Tail(matched), TrimSpace(Head(matched).href), TRUE)
    ELSE EachFirstHref(Tail(matched), cur, assigned)

FirstHrefWins(matched, cur) == EachFirstHref(matched, cur, FALSE)

\* Selection.Each with the callback of lines 105-109: every match that has an
\* href attribute overwrites iconURL (cur) with the trimmed href.
RECURSIVE Each(_, _)
Each(matched, cur) ==
    IF matched = <<>>
    THEN cur
    ELSE IF Head(matched).href # NoAttr
    THEN Each(Tail(matched), TrimSpace(Head(matched).href))
    ELSE Each(Tail(matched), cur)

\* ScanNoBreak: the loop of lines 104-114 without its break.
RECURSIVE ScanAllQueries(_, _, _)
ScanAllQueries(doc, qi, cur) ==
    IF qi > Len(queries)
    THEN cur
    ELSE ScanAllQueries(doc, qi + 1, Each(Find(doc, queries[qi]), cur))

\* The loop of lines 104-114 from query number qi on; iconURL (cur) is not reset
\* between queries, and the loop breaks once it is not empty.
RECURSIVE ScanQueries(_, _, _)
ScanQueries(doc, qi, cur) ==
    IF qi > Len(queries)
    THEN cur
    ELSE
        LET found == Each(Find(doc, queries[qi]), cur)
        IN  IF found # <<>> THEN found ELSE ScanQueries(doc, qi + 1, found)

\* A response body: readable or failing on read, with what it holds.
Body(readable, content) == [readable |-> readable, content |-> content]

\* findIconURLFromHTMLDocument (lines 90-117): goquery fails only when the
\* reader fails; any markup parses.
findIconURLFromHTMLDocument(body) ==
    IF ~body.readable
    THEN [url |-> <<>>,
          err |-> Errorf("findIconURLFromHTMLDocument", "icon: unable to read document", Nil)]
    ELSE [url |-> ScanQueries(body.content, 1, <<>>), err |-> Nil]

\* ------------------------------------------------------------------ urllib

\* A parsed URL; a website URL that net/url cannot parse is Malformed.
URL(scheme, host, path) == [scheme |-> scheme, host |-> host, path |-> path]
Malformed == [malformed |-> TRUE]

\* urllib.RootURL: scheme and host of the site; the input itself when it does
\* not parse.
RootURL(u) == IF u = Malformed THEN u ELSE URL(u.scheme, u.host, "/")

\* urllib.JoinBaseURLAndPath
JoinBaseURLAndPath(base, path) ==
    IF base = Malformed
    THEN [url |-> Nil, err |-> [urllib |-> "invalid base URL"]]
    ELSE [url |-> [base |-> base, join |-> path], err |-> Nil]

\* urllib.AbsoluteURL: the reference resolved against the base.
AbsoluteURL(base, ref) ==
    IF base = Malformed
    THEN [url |-> Nil, err |-> [urllib |-> "unable to parse base URL"]]
    ELSE [url |-> [base |-> base, resolve |-> ref], err |-> Nil]

\* --------------------------------------------------------- generateIconURL

\* GenerateWithoutTrim: generateIconURL without line 49.
GenerateWithoutTrim(site, feedIcon) ==
    LET r == IF feedIcon = <<>>
             THEN JoinBaseURLAndPath(RootURL(site), "favicon.ico")
             ELSE AbsoluteURL(site, feedIcon)
    IN  IF r.err # Nil
        THEN [url |-> Nil, err |-> Errorf("generateIconURL", "icon: unable to resolve", r.err)]
        ELSE [url |-> r.url, err |-> Nil]

\* generateIconURL (lines 48-64)
generateIconURL(site, feedIcon) ==
    LET trimmed == TrimSpace(feedIcon)
        r == IF trimmed = <<>>
             THEN JoinBaseURLAndPath(RootURL(site), "favicon.ico")
             ELSE AbsoluteURL(site, trimmed)
        text == IF trimmed = <<>>
                THEN "icon: unable to join base URL and path"
                ELSE "icon: unable to convert icon URL to absolute URL"
    IN  IF r.err # Nil
        THEN [url |-> Nil, err |-> Errorf("generateIconURL", text, r.err)]
        ELSE [url |-> r.url, err |-> Nil]

\* -------------------------------------------------------------- http client

\* clt.Get(): a transport error, or a response.
TransportError == [failed |-> TRUE]
Response(status, contentType, body) ==
    [failed |-> FALSE, StatusCode |-> status, ContentType |-> contentType, Body |-> body]

\* Response.HasServerFailure: a 5xx-class status.
HasServerFailure(r) == r.StatusCode >= 500

\* A GET request as the client issues it: the function that built the client
\* and the URL it was built for.
Request(fn, url) == [fn |-> fn, url |-> url]

\* ----------------------------------------- fetchHTMLDocumentAndFindIconURL

\* fetchHTMLDocumentAndFindIconURL (lines 66-88), given what clt.Get() gave.
fetchHTMLDocumentAndFindIconURL(got) ==
    LET fn == "fetchHTMLDocumentAndFindIconURL"
        text == "icon: unable to download website index page"
    IN  IF got.failed
        THEN [url |-> <<>>, err |-> Errorf(fn, text, "transport"), scanned |-> FALSE]
        ELSE IF HasServerFailure(got)
        THEN [url |-> <<>>, err |-> Errorf(fn, text, got.StatusCode), scanned |-> FALSE]
        ELSE LET r == findIconURLFromHTMLDocument(got.Body)
             IN  [url |-> r.url, err |-> r.err, scanned |-> TRUE]

\* ------------------------------------------------------------ downloadIcon

\* DownloadKeepsEmpty: downloadIcon without the check of lines 141-143.
DownloadKeepsEmpty(url, got) ==
    IF got.failed \/ HasServerFailure(got) \/ ~got.Body.readable
    THEN Returned(Nil, Errorf("downloadIcon", "icon: unable to download icon", url))
    ELSE Returned(Icon(got.Body.content, got.ContentType), Nil)

\* downloadIcon (lines 119-152), given what clt.Get() gave.
downloadIcon(url, got) ==
    LET fn == "downloadIcon"
    IN  IF got.failed
        THEN Returned(Nil, Errorf(fn, "icon: unable to download iconURL", "transport"))
        ELSE IF HasServerFailure(got)
        THEN Returned(Nil, Errorf(fn, "icon: unable to download icon", got.StatusCode))
        ELSE IF ~got.Body.readable
        THEN Returned(Nil, Errorf(fn, "icon: unable to read downloaded icon", "read"))
        ELSE IF Len(got.Body.content) = 0
        THEN Returned(Nil, Errorf(fn, "icon: downloaded icon is empty", url))
        ELSE Returned(Icon(got.Body.content, got.ContentType), Nil)

\* ------------------------------------------------------------------ inputs

\* Every sequence over S of length at most n.
SeqUpTo(S, n) == UNION {[1..k -> S] : k \in 0..n}

Href_a == <<"/", "a", ".", "p", "n", "g">>
Href_b == <<"/", "b", ".", "p", "n", "g">>
Href_c_spaced == <<" ", "/", "c", ".", "p", "n", "g", " ">>
Href_blank == <<" ">>

MediaImage == ImagePrefix \o <<"x">>
MediaText == <<"t", "e", "x", "t", "/", "x">>

\* data:image/x;base64,AA== : one zero byte.
DataURL_ok == DataPrefix \o MediaImage \o <<";">> \o Base64Token \o <<",", "A", "A", "=", "=">>
\* data:image/x;base64, : decodes to no bytes.
DataURL_empty == DataPrefix \o MediaImage \o <<";">> \o Base64Token \o <<",">>
\* data:image/x, : unescapes to no bytes.
DataURL_plain_empty == DataPrefix \o MediaImage \o <<",">>
\* data:text/x,A : not an image.
DataURL_text == DataPrefix \o MediaText \o <<",", "A">>

\* The websiteURL arguments drawn.
Sites == {URL("https", "example.org", "/blog/"), Malformed}

\* The feedIconURL arguments drawn.
FeedIconURLs ==
    {<<>>, Href_blank, Href_a, Href_c_spaced, DataURL_ok, <<" ">> \o DataURL_ok,
     DataURL_empty, DataURL_plain_empty, DataURL_text}

\* The elements of the pages served to FindIcon.
PageElements ==
    {Element("link", "shortcut icon", Href_a),
     Element("link", "icon", Href_blank),
     Element("link", "icon", DataURL_ok),
     Element("link", "icon shortcut", DataURL_text)}

StatusCodes == {200, 404, 503}

\* What clt.Get() can give for the site's index page.
PageOutcomes ==
    {TransportError}
    \cup {Response(st, "text/html", Body(FALSE, <<>>)) : st \in StatusCodes}
    \cup {Response(st, "text/html", Body(TRUE, d)) :
            st \in StatusCodes, d \in SeqUpTo(PageElements, MaxPageLinks)}

\* What clt.Get() can give for the icon.
IconOutcomes ==
    {TransportError}
    \cup {Response(st, "image/png", b) :
            st \in StatusCodes,
            b \in {Body(FALSE, <<>>), Body(TRUE, <<>>), Body(TRUE, <<137, 80>>)}}

\* The documents the scanner specification draws.
ScanRels == {queries[i] : i \in 1..Len(queries)}
ScanHrefs == {NoAttr, Href_blank, Href_a, Href_b, Href_c_spaced}
ScanElements ==
    {Element("link", rel, href) : rel \in ScanRels, href \in ScanHrefs}
    \cup {Element("a", "icon", Href_a)}
ScanBodies ==
    {Body(FALSE, <<>>)} \cup {Body(TRUE, d) : d \in SeqUpTo(ScanElements, MaxLinks)}

\* The data URLs the decoder specification draws: data:<header>,<payload> and
\* data:<header> without a comma.
PayloadChars == {"A", "B", "=", "\n", "%"}
Headers ==
    {MediaImage \o <<";">> \o Base64Token,
     MediaImage,
     MediaImage \o <<";">>,
     MediaImage \o <<";", "g", "z">>,
     MediaText \o <<";">> \o Base64Token,
     <<";">> \o Base64Token,
     <<>>}
\* Payloads of up to MaxPayload characters, and payloads of two quanta: four
\* symbols followed by up to four characters.
Payloads ==
    SeqUpTo(PayloadChars, MaxPayload)
    \cup {a \o b : a \in [1..4 -> {"A", "B"}], b \in SeqUpTo(PayloadChars, 4)}
DataURLs ==
    {DataPrefix \o h \o <<",">> \o p : h \in Headers, p \in Payloads}
    \cup {DataPrefix \o h : h \in Headers}

\* ----------------------------------------------------------------- FindIcon

\* A string variable that holds nothing yet.
Unset == <<"(unset)">>

\* FeedIconURLIsBlank: line 25 testing the trimmed argument.
FeedIconURLIsBlank(u) == TrimSpace(u) = <<>>

\* feedIconURL == "" (line 25)
FeedIconURLIsEmpty(u) == u = <<>>

\* IsImageDataURL: line 32 testing for "data:image/".
IsImageDataURL(u) == HasPrefix(u, DataPrefix \o ImagePrefix)

\* strings.HasPrefix(feedIconURL, "data:") (line 32)
IsDataURL(u) == HasPrefix(u, DataPrefix)

\* ErrIgnored: an error that is never acted on.
ErrIgnored(e) == FALSE

\* err != nil (lines 27, 37, 41): the call returns nil and the error.
Aborts(e) == e # Nil

\* GetsWithRetry: downloadIcon issuing the GET again after a transport error.
GetsWithRetry(url, got) ==
    IF got.failed
    THEN <<Request("downloadIcon", url), Request("downloadIcon", url)>>
    ELSE <<Request("downloadIcon", url)>>

\* The GET requests one run of downloadIcon issues (line 127).
downloadIconGets(url, got) == <<Request("downloadIcon", url)>>

Init ==
    /\ pc = "L25"
    /\ websiteURL \in Sites
    /\ argIconURL \in FeedIconURLs
    /\ feedIconURL = argIconURL
    /\ candidate = Unset
    /\ iconURL = Nil
    /\ response = Nil
    /\ requests = <<>>
    /\ calls = <<>>
    /\ icon = Nil
    /\ err = Nil

\* Lines 25-30 with no feed icon URL: fetch the index page and scan it.
FindIcon_L26 ==
    /\ pc = "L25"
    /\ FeedIconURLIsEmpty(feedIconURL)
    /\ \E got \in PageOutcomes :
        LET r == fetchHTMLDocumentAndFindIconURL(got)
        IN  /\ response' = got
            /\ requests' = Append(requests,
                    Request("fetchHTMLDocumentAndFindIconURL", RootURL(websiteURL)))
            /\ calls' = calls \o
                    (IF r.scanned
                     THEN <<"fetchHTMLDocumentAndFindIconURL", "findIconURLFromHTMLDocument">>
                     ELSE <<"fetchHTMLDocumentAndFindIconURL">>)
            /\ IF Aborts(r.err)
               THEN /\ pc' = "done"
                    /\ err' = r.err
                    /\ UNCHANGED feedIconURL
               ELSE /\ pc' = "L32"
                    /\ feedIconURL' = r.url
                    /\ UNCHANGED err
    /\ UNCHANGED <<websiteURL, argIconURL, candidate, iconURL, icon>>

\* Line 25 with a feed icon URL: the body of the if is skipped.
FindIcon_L25_skip ==
    /\ pc = "L25"
    /\ ~FeedIconURLIsEmpty(feedIconURL)
    /\ pc' = "L32"
    /\ UNCHANGED <<websiteURL, argIconURL, feedIconURL, candidate, iconURL,
                   response, requests, calls, icon, err>>

\* Lines 32-34: a data URL is decoded and returned.
FindIcon_L33 ==
    /\ pc = "L32"
    /\ IsDataURL(feedIconURL)
    /\ LET r == parseImageDataURL(feedIconURL)
       IN  /\ icon' = r.icon
           /\ err' = r.err
    /\ candidate' = feedIconURL
    /\ calls' = Append(calls, "parseImageDataURL")
    /\ pc' = "done"
    /\ UNCHANGED <<websiteURL, argIconURL, feedIconURL, iconURL, response, requests>>

\* Lines 36-39: the candidate is resolved (the code stores the result back
\* into feedIconURL; the model keeps it in iconURL).
FindIcon_L36 ==
    /\ pc = "L32"
    /\ ~IsDataURL(feedIconURL)
    /\ LET r == generateIconURL(websiteURL, feedIconURL)
       IN  IF Aborts(r.err)
           THEN /\ pc' = "done"
                /\ err' = r.err
                /\ UNCHANGED iconURL
           ELSE /\ pc' = "L41"
                /\ iconURL' = r.url
                /\ UNCHANGED err
    /\ candidate' = feedIconURL
    /\ calls' = Append(calls, "generateIconURL")
    /\ UNCHANGED <<websiteURL, argIconURL, feedIconURL, response, requests, icon>>

\* Lines 41-45: the icon is downloaded and returned.
FindIcon_L41 ==
    /\ pc = "L41"
    /\ \E got \in IconOutcomes :
        LET r == downloadIcon(iconURL, got)
        IN  /\ response' = got
            /\ requests' = requests \o downloadIconGets(iconURL, got)
            /\ IF Aborts(r.err)
               THEN icon' = Nil /\ err' = r.err
               ELSE icon' = r.icon /\ err' = Nil
    /\ calls' = Append(calls, "downloadIcon")
    /\ pc' = "done"
    /\ UNCHANGED <<websiteURL, argIconURL, feedIconURL, candidate, iconURL>>

Next ==
    \/ FindIcon_L26
    \/ FindIcon_L25_skip
    \/ FindIcon_L33
    \/ FindIcon_L36
    \/ FindIcon_L41

\* One call of FindIcon, over every argument and collaborator outcome drawn.
Spec == Init /\ [][Next]_vars

\* ------------------------------------------------- the scanner on its own

InitScan ==
    /\ pc = "scan"
    /\ response \in ScanBodies
    /\ websiteURL = Malformed
    /\ argIconURL = <<>>
    /\ feedIconURL = <<>>
    /\ candidate = Unset
    /\ iconURL = Nil
    /\ requests = <<>>
    /\ calls = <<>>
    /\ icon = Nil
    /\ err = Nil

\* findIconURLFromHTMLDocument applied to the drawn body.
ScanDocument ==
    /\ pc = "scan"
    /\ LET r == findIconURLFromHTMLDocument(response)
       IN  /\ feedIconURL' = r.url
           /\ err' = r.err
    /\ calls' = Append(calls, "findIconURLFromHTMLDocument")
    /\ pc' = "scanned"
    /\ UNCHANGED <<websiteURL, argIconURL, candidate, iconURL, response, requests, icon>>

NextScan == ScanDocument

SpecScan == InitScan /\ [][NextScan]_vars

\* ------------------------------------------------- the decoder on its own

InitData ==
    /\ pc = "parse"
    /\ feedIconURL \in DataURLs
    /\ argIconURL = feedIconURL
    /\ websiteURL = Malformed
    /\ candidate = Unset
    /\ iconURL = Nil
    /\ response = Nil
    /\ requests = <<>>
    /\ calls = <<>>
    /\ icon = Nil
    /\ err = Nil

\* parseImageDataURL applied to the drawn data URL.
ParseDataURL ==
    /\ pc = "parse"
    /\ LET r == parseImageDataURL(feedIconURL)
       IN  /\ icon' = r.icon
           /\ err' = r.err
    /\ calls' = Append(calls, "parseImageDataURL")
    /\ pc' = "parsed"
    /\ UNCHANGED <<websiteURL, argIconURL, feedIconURL, candidate, iconURL, response, requests>>

NextData == ParseDataURL

SpecData == InitData /\ [][NextData]_vars

\* ------------------------------------------------------------------ claims

Last(q) == q[Len(q)]
Called(fn) == \E i \in 1..Len(calls) : calls[i] = fn
Requested(fn) == \E i \in 1..Len(requests) : requests[i].fn = fn
CountRequests(fn) == Cardinality({i \in 1..Len(requests) : requests[i].fn = fn})

\* <root>/favicon.ico for the site of the call, as the claims describe it.
FaviconOfSite ==
    [base |-> URL(websiteURL.scheme, websiteURL.host, "/"), join |-> "favicon.ico"]

\* C1: whenever FindIcon returns an Icon, its Content holds at least one byte,
\* on the data-URL path and on the download path alike.
C1_IconContentNeverEmpty ==
    icon # Nil => Len(icon.Content) >= 1

\* C1 witness: a call that returned a downloaded Icon.
C1_Witness ==
    /\ pc = "done"
    /\ icon # Nil
    /\ Last(calls) = "downloadIcon"
    /\ ~response.failed /\ response.Body.readable

\* C2: when the candidate tested at line 32 begins with "data:", the call ends
\* there with exactly parseImageDataURL's result, and neither generateIconURL
\* nor downloadIcon runs (no resolution, no icon request), decode error or not.
C2_DataURLDecodedDirectly ==
    (candidate # Unset /\ HasPrefix(candidate, DataPrefix)) =>
        /\ pc = "done"
        /\ Returned(icon, err) = parseImageDataURL(candidate)
        /\ Last(calls) = "parseImageDataURL"
        /\ ~Called("generateIconURL")
        /\ ~Called("downloadIcon")
        /\ ~Requested("downloadIcon")
        /\ iconURL = Nil

\* C2 witness: a data URL found by scanning the page, whose decoding failed.
C2_Witness ==
    /\ pc = "done"
    /\ argIconURL = <<>>
    /\ candidate # Unset /\ HasPrefix(candidate, DataPrefix)
    /\ err # Nil
    /\ Requested("fetchHTMLDocumentAndFindIconURL")

\* C3: a call issues at most two GET requests, at most one for the page and at
\* most one for the icon, the page's first; after a failed request the call is
\* over, so nothing is requested again.
C3_AtMostTwoSequentialRequests ==
    /\ Len(requests) <= 2
    /\ CountRequests("fetchHTMLDocumentAndFindIconURL") <= 1
    /\ CountRequests("downloadIcon") <= 1
    /\ \A i \in 1..Len(requests) :
        requests[i].fn \in {"fetchHTMLDocumentAndFindIconURL", "downloadIcon"}
    /\ Len(requests) = 2 =>
        /\ requests[1].fn = "fetchHTMLDocumentAndFindIconURL"
        /\ requests[2].fn = "downloadIcon"
    /\ (response # Nil /\ (response.failed \/ HasServerFailure(response))) => pc = "done"

\* C3 witness: a call that fetched the page and then the icon, which failed.
C3_Witness ==
    /\ pc = "done"
    /\ Len(requests) = 2
    /\ response.failed

\* The step whose failure the last response or result shows, Nil when none.
FailedStep ==
    IF response # Nil /\ (response.failed \/ HasServerFailure(response))
    THEN Last(requests).fn
    ELSE IF response # Nil /\ ~response.Body.readable
    THEN IF Last(requests).fn = "downloadIcon"
         THEN "downloadIcon" ELSE "findIconURLFromHTMLDocument"
    ELSE IF response # Nil /\ Last(requests).fn = "downloadIcon"
            /\ response.Body.content = <<>>
    THEN "downloadIcon"
    ELSE IF candidate # Unset /\ HasPrefix(candidate, DataPrefix)
            /\ parseImageDataURL(candidate).err # Nil
    THEN "parseImageDataURL"
    ELSE IF candidate # Unset /\ ~HasPrefix(candidate, DataPrefix)
            /\ websiteURL = Malformed
    THEN "generateIconURL"
    ELSE "none"

\* C4: a failure at any step ends the call at that step with that step's
\* error and no icon; a finished call returns either an icon or an error,
\* never both and never neither; a running call has returned nothing.
C4_FailureEndsTheCall ==
    /\ pc = "done" => ((icon = Nil) # (err = Nil))
    /\ pc # "done" => (icon = Nil /\ err = Nil)
    /\ err # Nil => (pc = "done" /\ icon = Nil /\ err.fn = Last(calls))
    /\ FailedStep # "none" =>
        /\ pc = "done"
        /\ err # Nil
        /\ err.fn = FailedStep
        /\ Last(calls) = FailedStep
    /\ (pc = "done" /\ FailedStep = "none") => icon # Nil

\* C4 witness: the page was fetched but could not be read as a document.
C4_Witness ==
    /\ pc = "done"
    /\ err # Nil
    /\ err.fn = "findIconURLFromHTMLDocument"
    /\ Len(requests) = 1

\* The scanned document of the scanner specification.
ScannedDoc == response.content

\* The positions of the link elements with the given rel and an href attribute.
HrefLinks(doc, rel) ==
    {i \in 1..Len(doc) : doc[i].tag = "link" /\ doc[i].rel = rel /\ doc[i].href # NoAttr}

\* The positions of the link elements with the given rel.
RelLinks(doc, rel) == {i \in 1..Len(doc) : doc[i].tag = "link" /\ doc[i].rel = rel}

MaxOf(S) == CHOOSE m \in S : \A k \in S : k <= m

\* What one selector yields: the trimmed href of its last match that has one.
Yield(doc, rel) ==
    IF HrefLinks(doc, rel) = {} THEN <<>> ELSE TrimSpace(doc[MaxOf(HrefLinks(doc, rel))].href)

\* The priority order the claims name.
Priority == <<"shortcut icon", "Shortcut Icon", "icon shortcut", "icon">>

HasBothLinks(doc) ==
    /\ \E i \in 1..Len(doc) : doc[i] = Element("link", "icon", Href_a)
    /\ \E i \in 1..Len(doc) : doc[i] = Element("link", "shortcut icon", Href_b)

\* C5 as stated: every document holding both <link rel="icon" href="/a.png">
\* and <link rel="shortcut icon" href="/b.png"> scans to "/b.png".
C5_Original ==
    (pc = "scanned" /\ response.readable /\ HasBothLinks(ScannedDoc)) =>
        feedIconURL = Href_b

\* C5 amended: such a document scans to "/b.png" when that link is the last
\* link[rel='shortcut icon'] carrying an href; in every document the result is
\* what the first selector, in the order 'shortcut icon', 'Shortcut Icon',
\* 'icon shortcut', 'icon', with a non-empty yield yields, wherever the elements
\* stand in the document.
C5_EarlierSelectorWins ==
    (pc = "scanned" /\ response.readable) =>
        /\ (HasBothLinks(ScannedDoc) /\ Yield(ScannedDoc, "shortcut icon") = Href_b) =>
                feedIconURL = Href_b
        /\ \A qi \in 1..Len(Priority) :
            (/\ Yield(ScannedDoc, Priority[qi]) # <<>>
             /\ \A k \in 1..(qi - 1) : Yield(ScannedDoc, Priority[k]) = <<>>)
                => feedIconURL = Yield(ScannedDoc, Priority[qi])

\* C5 witness: both links, the rel="icon" one last, scanned to "/b.png".
C5_Witness ==
    /\ pc = "scanned"
    /\ response.readable
    /\ HasBothLinks(ScannedDoc)
    /\ Last(ScannedDoc) = Element("link", "icon", Href_a)
    /\ feedIconURL = Href_b

\* Two or more link[rel='icon'] elements and nothing for an earlier selector.
OnlyIconLinks(doc) ==
    /\ Cardinality(RelLinks(doc, "icon")) >= 2
    /\ \A k \in 1..3 : RelLinks(doc, Priority[k]) = {}

\* The href of an element as a string: empty when the attribute is absent.
HrefOrEmpty(e) == IF e.href = NoAttr THEN <<>> ELSE TrimSpace(e.href)

\* C6 as stated: with two or more link[rel='icon'] and no higher-priority
\* match, the result is the href of the last link[rel='icon'] element.
C6_Original ==
    (pc = "scanned" /\ response.readable /\ OnlyIconLinks(ScannedDoc)) =>
        feedIconURL = HrefOrEmpty(ScannedDoc[MaxOf(RelLinks(ScannedDoc, "icon"))])

\* C6 amended: with two or more link[rel='icon'] and no higher-priority match,
\* the result is the trimmed href of the last link[rel='icon'] element that has
\* an href attribute, and empty when none has one.
C6_LastHrefWins ==
    (pc = "scanned" /\ response.readable /\ OnlyIconLinks(ScannedDoc)) =>
        feedIconURL = Yield(ScannedDoc, "icon")

\* C6 witness: two link[rel='icon'] with different hrefs; the later one won.
C6_Witness ==
    /\ pc = "scanned"
    /\ response.readable
    /\ OnlyIconLinks(ScannedDoc)
    /\ Cardinality(HrefLinks(ScannedDoc, "icon")) >= 2
    /\ ScannedDoc[1] = Element("link", "icon", Href_a)
    /\ feedIconURL = Href_b

\* The 1-based position of the first comma of a data URL that has one.
CommaAt(v) == Index(v, ",") + 1

\* What stands between "data:" and the first comma, and what follows the comma.
HeaderOf(v) == SubSeq(v, Len(DataPrefix) + 1, CommaAt(v) - 1)
PayloadOf(v) == SubSeq(v, CommaAt(v) + 1, Len(v))

Base64Suffix == <<";">> \o Base64Token

\* An input of the form data:image/<subtype>;base64,<b64>.
Base64Form(v) ==
    /\ HasPrefix(v, DataPrefix)
    /\ Contains(v, ",")
    /\ LET h == HeaderOf(v)
           n == Len(h) - Len(Base64Suffix)
       IN  /\ n >= Len(ImagePrefix)
           /\ SubSeq(h, n + 1, Len(h)) = Base64Suffix
           /\ HasPrefix(h, ImagePrefix)
           /\ ~Contains(SubSeq(h, 1, n), ";")

\* Standard padded base64 of a byte sequence (RFC 4648, section 4).
RECURSIVE EncodeToString(_)
EncodeToString(bytes) ==
    LET sym(v) == StdAlphabet[v + 1]
    IN  IF bytes = <<>>
        THEN <<>>
        ELSE IF Len(bytes) = 1
        THEN LET val == bytes[1] * 65536
             IN  <<sym(val \div 262144), sym((val \div 4096) % 64), PadChar, PadChar>>
        ELSE IF Len(bytes) = 2
        THEN LET val == bytes[1] * 65536 + bytes[2] * 256
             IN  <<sym(val \div 262144), sym((val \div 4096) % 64), sym((val \div 64) % 64),
                   PadChar>>
        ELSE LET val == bytes[1] * 65536 + bytes[2] * 256 + bytes[3]
             IN  <<sym(val \div 262144), sym((val \div 4096) % 64), sym((val \div 64) % 64),
                   sym(val % 64)>> \o EncodeToString(SubSeq(bytes, 4, Len(bytes)))

\* Base64 text with no CR or LF in it and no bit set in the part of its last
\* symbol that the padding discards.
Canonical(b64) ==
    /\ \A i \in 1..Len(b64) : ~IsNewline(b64[i])
    /\ (Len(b64) >= 3 /\ b64[Len(b64)] = PadChar /\ b64[Len(b64) - 1] = PadChar)
            => DecodeMap(b64[Len(b64) - 2]) % 16 = 0
    /\ (Len(b64) >= 2 /\ b64[Len(b64)] = PadChar /\ b64[Len(b64) - 1] # PadChar)
            => DecodeMap(b64[Len(b64) - 1]) % 4 = 0

SyntaxMediaType(v) ==
    LET h == HeaderOf(v)
    IN  IF Contains(h, ";") THEN SubSeq(h, 1, Index(h, ";")) ELSE h

\* The encoding token by the data: syntax: what follows the first ';' of the
\* header, empty when it has none.
SyntaxEncoding(v) ==
    LET h == HeaderOf(v)
    IN  IF Contains(h, ";") THEN SubSeq(h, Index(h, ";") + 2, Len(h)) ELSE <<>>

\* The three rejected shapes of C9.
MissingComma(v) == ~Contains(SubSeq(v, Len(DataPrefix) + 1, Len(v)), ",")
NotAnImage(v) == ~MissingComma(v) /\ ~HasPrefix(SyntaxMediaType(v), ImagePrefix)
UnsupportedEncoding(v) ==
    /\ ~MissingComma(v)
    /\ HasPrefix(SyntaxMediaType(v), ImagePrefix)
    /\ SyntaxEncoding(v) \notin {Base64Token, <<>>}

\* C9: a data URL with no comma, or whose media type does not start with
\* image/, or whose image/ media type is followed by an encoding token other
\* than base64 or the empty one, is answered with an error and no Icon.
C9_MalformedDataURLRejected ==
    (pc = "parsed" /\ (MissingComma(feedIconURL) \/ NotAnImage(feedIconURL)
                       \/ UnsupportedEncoding(feedIconURL))) =>
        /\ icon = Nil
        /\ err # Nil
        /\ err.fn = "parseImageDataURL"

\* C9 witness: an image/ data URL with another encoding token and a payload.
C9_Witness ==
    /\ pc = "parsed"
    /\ UnsupportedEncoding(feedIconURL)
    /\ PayloadOf(feedIconURL) # <<>>
    /\ err # Nil

\* C8: with no feed icon URL and no icon link found, the call does not fail at
\* the scan; generateIconURL gets the empty candidate, yields <root>/favicon.ico
\* and that URL is what downloadIcon requests.  generateIconURL yields
\* <root>/favicon.ico for every candidate that is empty once trimmed, and the
\* candidate resolved against websiteURL otherwise (for a site URL that parses).
C8_FaviconFallback ==
    /\ (argIconURL = <<>> /\ Called("findIconURLFromHTMLDocument")
            /\ ~response.failed /\ Last(requests).fn = "fetchHTMLDocumentAndFindIconURL"
            /\ response.Body.readable /\ feedIconURL = <<>>) =>
        /\ err = Nil \/ err.fn = "generateIconURL"
        /\ pc = "done" => (Called("generateIconURL") /\ candidate = <<>>)
    /\ (candidate # Unset /\ ~HasPrefix(candidate, DataPrefix)) =>
        /\ Called("generateIconURL")
        /\ websiteURL # Malformed =>
            /\ err = Nil \/ err.fn = "downloadIcon"
            /\ iconURL = IF TrimSpace(candidate) = <<>>
                         THEN FaviconOfSite
                         ELSE [base |-> websiteURL, resolve |-> TrimSpace(candidate)]
            /\ \A i \in 1..Len(requests) :
                    requests[i].fn = "downloadIcon" => requests[i].url = iconURL
            /\ pc = "done" => Requested("downloadIcon")

\* C8 witness: nothing supplied, nothing found on the page, and the icon was
\* downloaded from <root>/favicon.ico.
C8_Witness ==
    /\ pc = "done"
    /\ argIconURL = <<>>
    /\ candidate = <<>>
    /\ icon # Nil
    /\ Len(requests) = 2
    /\ requests[2] = Request("downloadIcon", FaviconOfSite)

\* A supplied value that is not empty but only whitespace.
WhitespaceOnly(u) == u # <<>> /\ TrimSpace(u) = <<>>

\* A supplied value with whitespace before "data:".
SpaceBeforeData(u) == ~HasPrefix(u, DataPrefix) /\ HasPrefix(TrimLeft(u), DataPrefix)

\* C10: the page is fetched and scanned exactly when the feedIconURL argument
\* is the empty string, untrimmed; a whitespace-only argument causes no page
\* fetch and no scan, reaches generateIconURL untrimmed, and the call's only
\* request is the download of <root>/favicon.ico; an argument with whitespace
\* before "data:" is never given to parseImageDataURL but to generateIconURL
\* and downloadIcon.
C10_EmptyTestIsUntrimmed ==
    /\ (Requested("fetchHTMLDocumentAndFindIconURL") \/ Called("findIconURLFromHTMLDocument")
            \/ Called("fetchHTMLDocumentAndFindIconURL")) => argIconURL = <<>>
    /\ (argIconURL = <<>> /\ pc # "L25") =>
            (requests # <<>> /\ requests[1].fn = "fetchHTMLDocumentAndFindIconURL")
    /\ WhitespaceOnly(argIconURL) =>
        /\ candidate \in {Unset, argIconURL}
        /\ ~Called("parseImageDataURL")
        /\ (pc = "done" /\ websiteURL # Malformed) =>
                requests = <<Request("downloadIcon", FaviconOfSite)>>
    /\ SpaceBeforeData(argIconURL) =>
        /\ ~Called("parseImageDataURL")
        /\ candidate \in {Unset, argIconURL}
        /\ pc = "done" => Called("generateIconURL")
        /\ (pc = "done" /\ websiteURL # Malformed) =>
                (Called("downloadIcon") /\ Len(requests) = 1)

\* C10 witness: a whitespace-only argument, and the favicon downloaded.
C10_Witness ==
    /\ pc = "done"
    /\ WhitespaceOnly(argIconURL)
    /\ icon # Nil
    /\ requests = <<Request("downloadIcon", FaviconOfSite)>>

====
